---- MODULE Spec2Model ----
(***************************************************************************)
(* Model of merge_diarization.py: parsing of the diarization file, the     *)
(* coalescing of consecutive same-speaker intervals, the resolution of a   *)
(* speaker for every caption of the SRT transcript and the accumulation of *)
(* captions into speaker-attributed output lines.                          *)
(*                                                                         *)
(* Times are integers counting milliseconds (both input formats carry at   *)
(* most three decimals); texts are sequences of one-character strings.     *)
(*                                                                         *)
(* Spec is merge as a whole, run over small diarization files and several  *)
(* captions.  SpecAlign is merge up to the resolution of its first caption *)
(* (lines 158-166), run over larger diarization files; it keeps the        *)
(* caption's interval in srt_start and srt_end.                            *)
(***************************************************************************)
EXTENDS Integers, Sequences, FiniteSets, TLC

\* ------------------------------------------------------------------ bounds
MaxTime == 2        \* timestamps range over 0..MaxTime seconds
MaxDiar == 2        \* lines of the diarization file (SpecAlign)
MaxMergeDiar == 1   \* lines of the diarization file (Spec)
MaxSrt  == 2        \* caption blocks read from the SRT file (Spec)
MaxTitleLen == 3    \* characters of a title (SpecSanitize)
MaxCount == 2       \* download count of an artifact

\* --------------------------------------------------------------- constants
MsPerSecond == 1000
MsPerMinute == 60000
MsPerHour   == 3600000

None == "None"
Speakers == {"SPEAKER_00", "SPEAKER_01"}

Max(a, b) == IF a > b THEN a ELSE b
Min(a, b) == IF a < b THEN a ELSE b

SeqsUpTo(S, n) == UNION {[1..k -> S] : k \in 0..n}

\* ------------------------------------------------------------ text helpers
IsSpace(c) == c \in {" ", "\t"}

RECURSIVE lstrip(_)
lstrip(s) == IF s = <<>> \/ ~IsSpace(Head(s)) THEN s ELSE lstrip(Tail(s))

RECURSIVE rstrip(_)
rstrip(s) ==
    IF s = <<>> \/ ~IsSpace(s[Len(s)]) THEN s
    ELSE rstrip(SubSeq(s, 1, Len(s) - 1))

\* str.strip()
strip(s) == rstrip(lstrip(s))

\* str.split() without argument: the maximal runs of non-whitespace
RECURSIVE SplitScan(_, _, _, _)
SplitScan(s, i, word, words) ==
    IF i > Len(s)
    THEN IF word = <<>> THEN words ELSE Append(words, word)
    ELSE IF IsSpace(s[i])
         THEN SplitScan(s, i + 1, <<>>,
                        IF word = <<>> THEN words ELSE Append(words, word))
         ELSE SplitScan(s, i + 1, Append(word, s[i]), words)

split(s) == SplitScan(s, 1, <<>>, <<>>)

\* sep.join(parts)
RECURSIVE join(_, _)
join(sep, parts) ==
    IF parts = <<>> THEN <<>>
    ELSE IF Len(parts) = 1 THEN parts[1]
    ELSE parts[1] \o sep \o join(sep, Tail(parts))

MapStrip(lines) == [i \in 1..Len(lines) |-> strip(lines[i])]

\* -------------------------------------------------------------- parse_diar
\* float(group) of a "<seconds>" group of DIAR_RE
float(secs) == secs * MsPerSecond

\* A line of the diarization file: whether DIAR_RE matches it and, if so,
\* its three groups.
DiarLines ==
    {[m |-> FALSE, start |-> 0, end |-> 0, spk |-> ""]}
    \cup [m : {TRUE}, start : 0..MaxTime, end : 0..MaxTime, spk : Speakers]

\* the loop of parse_diar: matching lines are appended, the others skipped
RECURSIVE CollectSegments(_, _, _)
CollectSegments(lines, i, segs) ==
    IF i > Len(lines) THEN segs
    ELSE IF ~lines[i].m THEN CollectSegments(lines, i + 1, segs)
    ELSE CollectSegments(lines, i + 1,
            Append(segs, [start   |-> float(lines[i].start),
                          end     |-> float(lines[i].end),
                          speaker |-> lines[i].spk]))

\* list.sort(key=lambda t: t[0]): stable, ascending on start
RECURSIVE InsertByStart_BeforeEqual(_, _)
InsertByStart_BeforeEqual(sorted, x) ==
    IF sorted = <<>> THEN <<x>>
    ELSE IF sorted[Len(sorted)].start < x.start THEN Append(sorted, x)
    ELSE Append(InsertByStart_BeforeEqual(SubSeq(sorted, 1, Len(sorted) - 1), x),
                sorted[Len(sorted)])

RECURSIVE InsertByStart(_, _)
InsertByStart(sorted, x) ==
    IF sorted = <<>> THEN <<x>>
    ELSE IF sorted[Len(sorted)].start <= x.start THEN Append(sorted, x)
    ELSE Append(InsertByStart(SubSeq(sorted, 1, Len(sorted) - 1), x),
                sorted[Len(sorted)])

RECURSIVE SortByStart(_)
SortByStart(segs) ==
    IF segs = <<>> THEN <<>>
    ELSE InsertByStart(SortByStart(SubSeq(segs, 1, Len(segs) - 1)),
                       segs[Len(segs)])

parse_diar(lines) == SortByStart(CollectSegments(lines, 1, <<>>))

\* ------------------------------------- join_consecutive_speaker_intervals
ExtendEnd_LastEnd(current_end, end) == end

\* line 115: current_end = max(current_end, end)
ExtendEnd(current_end, end) == Max(current_end, end)

NewAccumulator_KeepSpeaker(current, seg) ==
    [start |-> seg.start, end |-> seg.end, speaker |-> current.speaker]

\* line 119: the accumulator restarts from the differing segment
NewAccumulator(current, seg) ==
    [start |-> seg.start, end |-> seg.end, speaker |-> seg.speaker]

RECURSIVE JoinScan(_, _, _, _)
JoinScan(segs, i, current, joined) ==
    IF i > Len(segs) THEN Append(joined, current)
    ELSE IF segs[i].speaker = current.speaker
         THEN JoinScan(segs, i + 1,
                       [current EXCEPT !.end = ExtendEnd(current.end, segs[i].end)],
                       joined)
         ELSE JoinScan(segs, i + 1, NewAccumulator(current, segs[i]),
                       Append(joined, current))

join_consecutive_speaker_intervals(segs) ==
    IF segs = <<>> THEN <<>>
    ELSE JoinScan(segs, 2, segs[1], <<>>)

\* ------------------------------------------------ find_speaker_for_interval
best_speaker_init_Default == "SPEAKER_00"

\* line 132
best_speaker_init == "UNKNOWN"

Better_OrEqual(intersection_size, max_intersection) ==
    intersection_size >= max_intersection

\* line 143
Better(intersection_size, max_intersection) ==
    intersection_size > max_intersection

RECURSIVE ScanRuns(_, _, _, _, _, _)
ScanRuns(srt_s, srt_e, diar, i, best, max_intersection) ==
    IF i > Len(diar) THEN best
    ELSE LET intersection_start == Max(srt_s, diar[i].start)
             intersection_end   == Min(srt_e, diar[i].end)
             intersection_size  == intersection_end - intersection_start
         IN IF intersection_start < intersection_end
               /\ Better(intersection_size, max_intersection)
            THEN ScanRuns(srt_s, srt_e, diar, i + 1, diar[i].speaker,
                          intersection_size)
            ELSE ScanRuns(srt_s, srt_e, diar, i + 1, best, max_intersection)

RECURSIVE MaxEnd(_)
MaxEnd(diar) ==
    IF Len(diar) = 1 THEN diar[1].end
    ELSE Max(diar[1].end, MaxEnd(Tail(diar)))

\* line 149: max(seg[1] for seg in diar_segments)
last_diar_end(diar) == MaxEnd(diar)

IsTrailing_Always(srt_s, diar) == TRUE

\* line 150
IsTrailing(srt_s, diar) == srt_s >= last_diar_end(diar)

find_speaker_for_interval(srt_s, srt_e, diar) ==
    LET best == ScanRuns(srt_s, srt_e, diar, 1, best_speaker_init, 0)
    IN IF best = "UNKNOWN" /\ diar # <<>> /\ IsTrailing(srt_s, diar)
       THEN diar[Len(diar)].speaker
       ELSE best

\* --------------------------------------------------------------- parse_srt
\* hms_to_seconds over the four groups of TIME_RE
hms_to_seconds(h, m, s, ms) ==
    h * MsPerHour + m * MsPerMinute + s * MsPerSecond + ms

\* One side of the timing line after split("-->") and strip(): whether
\* TIME_RE matches it and, if so, its groups.
GoodStamp(s) == [match |-> TRUE, h |-> 0, m |-> 0, s |-> s, ms |-> 0]
BadStamp == [match |-> FALSE, h |-> 0, m |-> 0, s |-> 0, ms |-> 0]

\* The text lines a caption block can carry (block[2:]); no line is blank.
BlockTexts ==
    { <<>>,
      << <<" ", "a", " ", " ", "\t", "b", " ">>, <<"\t", "c">> >> }

\* A caption block: the number of its lines, the parts of its timing line
\* (block[1].split("-->")) and its text lines.
SrtBlocks ==
    {[nlines |-> 1, timing_parts |-> <<>>, text_lines |-> <<>>]}
    \cup {[nlines |-> 2, timing_parts |-> <<BadStamp>>, text_lines |-> <<>>]}
    \cup {[nlines |-> 2, timing_parts |-> <<BadStamp, GoodStamp(1)>>,
           text_lines |-> <<>>]}
    \cup {[nlines |-> 2, timing_parts |-> <<GoodStamp(0), BadStamp>>,
           text_lines |-> <<>>]}
    \cup {[nlines |-> 2 + Len(t),
           timing_parts |-> <<GoodStamp(s), GoodStamp(e)>>,
           text_lines |-> t] : s \in 0..MaxTime, e \in 0..MaxTime,
                               t \in BlockTexts}

EmptyBlock == [nlines |-> 0, timing_parts |-> <<>>, text_lines |-> <<>>]

Yielded(b) ==
    [err   |-> "none",
     start |-> hms_to_seconds(b.timing_parts[1].h, b.timing_parts[1].m,
                              b.timing_parts[1].s, b.timing_parts[1].ms),
     end   |-> hms_to_seconds(b.timing_parts[2].h, b.timing_parts[2].m,
                              b.timing_parts[2].s, b.timing_parts[2].ms),
     text  |-> join(<<" ">>, MapStrip(b.text_lines))]

Raised(e) == [err |-> e, start |-> 0, end |-> 0, text |-> <<>>]

\* lines 49-60: a block closed by a blank line
parse_block_in_loop(b) ==
    IF b.nlines < 2 THEN Raised("IndexError")
    ELSE IF Len(b.timing_parts) < 2 THEN Raised("IndexError")
    ELSE IF ~b.timing_parts[1].match \/ ~b.timing_parts[2].match
         THEN Raised("ValueError")
    ELSE Yielded(b)

\* lines 63-70: the last block of a file that ends without a blank line
parse_block_at_eof(b) ==
    IF b.nlines < 2 THEN Raised("IndexError")
    ELSE IF Len(b.timing_parts) < 2 THEN Raised("IndexError")
    ELSE IF ~b.timing_parts[1].match \/ ~b.timing_parts[2].match
         THEN Raised("AttributeError")
    ELSE Yielded(b)

\* ------------------------------------------------------------------- merge
SameSpeaker_Never(spk, current_spk) == FALSE

\* line 168
SameSpeaker(spk, current_spk) == spk = current_spk /\ current_spk # None

Accumulate_Overwrite(buffer, t) == <<strip(t)>>

\* line 170
Accumulate(buffer, t) == Append(buffer, strip(t))

CleanText_JoinOnly(texts) == join(<<" ">>, texts)

\* lines 175-176 and 184-185
CleanText(texts) == join(<<" ">>, split(join(<<" ">>, texts)))

\* the output line "[[speaker]]: text", kept as its two fields
OutputLine(spk, texts) == [speaker |-> spk, text |-> CleanText(texts)]

VARIABLES
    pc,               \* position of merge
    err,              \* the exception that ended merge, "none" otherwise
    segments,         \* result of parse_diar
    joined_segments,  \* result of join_consecutive_speaker_intervals
    block,            \* parse_srt: the block being assembled
    srt_exhausted,    \* parse_srt: the file has been read to its end
    n_read,           \* parse_srt: caption blocks yielded so far
    srt_start, srt_end,   \* interval of the caption resolved in SpecAlign
    text, speaker,        \* loop variables of merge
    current_speaker, current_text, output_lines,
    resolved,         \* the speakers resolved so far, in transcript order
    out_written, out_file,  \* the output file
    consumed,         \* SpecMerge: the texts parse_srt yielded, in order
    diar_lines,       \* SpecDiar: the lines of the diarization file
    title, sanitized, \* SpecSanitize: argument and result of sanitize_filename
    current, previous, new_downloads,  \* SpecDetect: detect_new_downloads
    server,             \* SpecMonitor: the download counts GitHub holds
    previous_downloads, \* run_monitoring_loop: the repository's entry
    state_file,         \* what save_state wrote last
    reported,           \* the reports logged by the latest poll
    polled_ok,          \* whether the latest poll fetched the repository
    last_ok,            \* the counts of the last successful fetch, if any
    baseline            \* last_ok as it was before the latest poll

monitor == <<server, previous_downloads, state_file, reported, polled_ok,
             last_ok, baseline>>

\* the variables that merge itself does not touch
aux == <<diar_lines, title, sanitized, current, previous, new_downloads,
         monitor>>

vars == <<pc, err, segments, joined_segments, block, srt_exhausted, n_read,
          srt_start, srt_end, text, speaker, current_speaker, current_text,
          output_lines, resolved, out_written, out_file, consumed, aux>>

DetectIdle ==
    /\ current = <<>>
    /\ previous = <<>>
    /\ new_downloads = <<>>

NoFetch == [ok |-> FALSE, counts |-> <<>>]

MonitorIdle ==
    /\ server = <<>>
    /\ previous_downloads = <<>>
    /\ state_file = <<>>
    /\ reported = <<>>
    /\ polled_ok = FALSE
    /\ last_ok = NoFetch
    /\ baseline = NoFetch

AuxIdle ==
    /\ diar_lines = <<>>
    /\ title = <<>>
    /\ sanitized = <<>>
    /\ DetectIdle
    /\ MonitorIdle

Init ==
    /\ pc = "start"
    /\ AuxIdle
    /\ err = "none"
    /\ segments = <<>>
    /\ joined_segments = <<>>
    /\ block = EmptyBlock
    /\ srt_exhausted = FALSE
    /\ n_read = 0
    /\ srt_start = 0
    /\ srt_end = 0
    /\ text = <<>>
    /\ speaker = None
    /\ current_speaker = None
    /\ current_text = <<>>
    /\ output_lines = <<>>
    /\ resolved = <<>>
    /\ out_written = FALSE
    /\ out_file = <<>>
    /\ consumed = <<>>

\* line 158, the diarization file exists and holds at most n lines
ParseDiar(n) ==
    /\ pc = "start"
    /\ \E lines \in SeqsUpTo(DiarLines, n) :
          segments' = parse_diar(lines)
    /\ pc' = "parsed"
    /\ UNCHANGED <<err, joined_segments, block, srt_exhausted, n_read,
                   srt_start, srt_end, text, speaker, current_speaker,
                   current_text, output_lines, resolved, out_written, out_file,
                   consumed>>
    /\ UNCHANGED aux

\* lines 78-80 and 94-96: sys.exit(1)
ParseDiarExit ==
    /\ pc = "start"
    /\ pc' = "exit"
    /\ err' = "SystemExit"
    /\ UNCHANGED <<segments, joined_segments, block, srt_exhausted, n_read,
                   srt_start, srt_end, text, speaker, current_speaker,
                   current_text, output_lines, resolved, out_written, out_file,
                   consumed>>
    /\ UNCHANGED aux

\* lines 159-163
Join ==
    /\ pc = "parsed"
    /\ joined_segments' = join_consecutive_speaker_intervals(segments)
    /\ current_speaker' = None
    /\ current_text' = <<>>
    /\ output_lines' = <<>>
    /\ pc' = "loop"
    /\ UNCHANGED <<err, segments, block, srt_exhausted, n_read, srt_start,
                   srt_end, text, speaker, resolved, out_written, out_file,
                   consumed>>
    /\ UNCHANGED aux

\* lines 36-38 and 71-73: sys.exit(1) on the first step of the generator
ParseSrtExit ==
    /\ pc = "loop"
    /\ n_read = 0
    /\ pc' = "exit"
    /\ err' = "SystemExit"
    /\ UNCHANGED <<segments, joined_segments, block, srt_exhausted, n_read,
                   srt_start, srt_end, text, speaker, current_speaker,
                   current_text, output_lines, resolved, out_written, out_file,
                   consumed>>
    /\ UNCHANGED aux

\* Lines 165-166 for the first caption: the generator yields the caption of
\* block b and its speaker is resolved.
Resolve(b) ==
    /\ pc = "loop"
    /\ n_read = 0
    /\ LET r == parse_block_in_loop(b)
       IN /\ r.err = "none"
          /\ srt_start' = r.start
          /\ srt_end' = r.end
          /\ text' = r.text
          /\ speaker' = find_speaker_for_interval(r.start, r.end,
                                                  joined_segments)
    /\ pc' = "resolved"
    /\ UNCHANGED <<err, segments, joined_segments, block, srt_exhausted,
                   n_read, current_speaker, current_text, output_lines,
                   resolved, out_written, out_file, consumed>>
    /\ UNCHANGED aux

\* One iteration of the loop of merge (lines 165-179): the generator reads
\* the next block b, closed by a blank line or by the end of the file, and
\* either raises or yields a caption that the loop body consumes.
MergeBody(b, at_eof) ==
    /\ pc = "loop"
    /\ ~srt_exhausted
    /\ n_read < MaxSrt
    /\ LET r == IF at_eof THEN parse_block_at_eof(b)
                ELSE parse_block_in_loop(b)
       IN IF r.err # "none"
          THEN /\ pc' = "error"
               /\ err' = r.err
               /\ block' = b
               /\ UNCHANGED <<srt_exhausted, n_read, text, speaker,
                              current_speaker, current_text, output_lines,
                              resolved>>
          ELSE LET spk == find_speaker_for_interval(r.start, r.end,
                                                    joined_segments)
               IN /\ pc' = "loop"
                  /\ err' = err
                  /\ block' = IF at_eof THEN b ELSE EmptyBlock
                  /\ srt_exhausted' = at_eof
                  /\ n_read' = n_read + 1
                  /\ text' = r.text
                  /\ speaker' = spk
                  /\ resolved' = Append(resolved, spk)
                  /\ IF SameSpeaker(spk, current_speaker)
                     THEN /\ current_text' = Accumulate(current_text, r.text)
                          /\ UNCHANGED <<current_speaker, output_lines>>
                     ELSE /\ output_lines' =
                               IF current_speaker # None
                               THEN Append(output_lines,
                                       OutputLine(current_speaker, current_text))
                               ELSE output_lines
                          /\ current_speaker' = spk
                          /\ current_text' = <<strip(r.text)>>
    /\ UNCHANGED <<segments, joined_segments, srt_start, srt_end,
                   out_written, out_file>>

MergeStep(b, at_eof) ==
    /\ MergeBody(b, at_eof)
    /\ UNCHANGED <<consumed, aux>>

\* The same iteration with the yielded text logged
Consume(b, at_eof) ==
    /\ MergeBody(b, at_eof)
    /\ consumed' = IF n_read' > n_read THEN Append(consumed, text')
                   ELSE consumed
    /\ UNCHANGED aux

\* The generator is exhausted: lines 181-197, the final flush and the write
\* of the output file (ok), or sys.exit(1) when the file cannot be opened.
Finish(ok) ==
    /\ pc = "loop"
    /\ LET final == IF current_speaker # None
                    THEN Append(output_lines,
                                OutputLine(current_speaker, current_text))
                    ELSE output_lines
       IN /\ output_lines' = final
          /\ IF ok
             THEN /\ pc' = "done"
                  /\ err' = err
                  /\ out_written' = TRUE
                  /\ out_file' = final
             ELSE /\ pc' = "exit"
                  /\ err' = "SystemExit"
                  /\ UNCHANGED <<out_written, out_file>>
    /\ srt_exhausted' = TRUE
    /\ UNCHANGED <<segments, joined_segments, block, n_read, srt_start,
                   srt_end, text, speaker, current_speaker, current_text,
                   resolved, consumed>>
    /\ UNCHANGED aux

Next ==
    \/ ParseDiar(MaxMergeDiar)
    \/ ParseDiarExit
    \/ Join
    \/ ParseSrtExit
    \/ \E b \in SrtBlocks, at_eof \in BOOLEAN : MergeStep(b, at_eof)
    \/ \E ok \in BOOLEAN : Finish(ok)

Spec == Init /\ [][Next]_vars

NextAlign ==
    \/ ParseDiar(MaxDiar)
    \/ Join
    \/ \E b \in SrtBlocks : Resolve(b)

SpecAlign == Init /\ [][NextAlign]_vars

\* Well-formed caption blocks whose texts differ from one another
MergeTexts ==
    { <<>>, << <<"a">> >>, << <<"b", " ", " ">>, <<"\t", "c">> >> }

MergeBlocks ==
    {[nlines |-> 2 + Len(t),
      timing_parts |-> <<GoodStamp(s), GoodStamp(e)>>,
      text_lines |-> t] : s \in 0..MaxTime, e \in 0..MaxTime,
                          t \in MergeTexts}

\* The diarization files of SpecMerge: an empty one and one with two
\* speakers, one second each.
MergeDiarFiles ==
    { <<>>,
      << [m |-> TRUE, start |-> 0, end |-> 1, spk |-> "SPEAKER_00"],
         [m |-> TRUE, start |-> 1, end |-> 2, spk |-> "SPEAKER_01"] >> }

\* merge after lines 158-163
InitMerge ==
    /\ pc = "loop"
    /\ AuxIdle
    /\ err = "none"
    /\ \E f \in MergeDiarFiles :
          /\ segments = parse_diar(f)
          /\ joined_segments = join_consecutive_speaker_intervals(parse_diar(f))
    /\ block = EmptyBlock
    /\ srt_exhausted = FALSE
    /\ n_read = 0
    /\ srt_start = 0
    /\ srt_end = 0
    /\ text = <<>>
    /\ speaker = None
    /\ current_speaker = None
    /\ current_text = <<>>
    /\ output_lines = <<>>
    /\ resolved = <<>>
    /\ out_written = FALSE
    /\ out_file = <<>>
    /\ consumed = <<>>

NextMerge ==
    \/ \E b \in MergeBlocks, at_eof \in BOOLEAN : Consume(b, at_eof)
    \/ \E ok \in BOOLEAN : Finish(ok)

SpecMerge == InitMerge /\ [][NextMerge]_vars

\* ---------------------------------------------------- parse_diar on a file
\* the state of merge before it starts, apart from pc
MergeIdle ==
    /\ err = "none"
    /\ segments = <<>>
    /\ joined_segments = <<>>
    /\ block = EmptyBlock
    /\ srt_exhausted = FALSE
    /\ n_read = 0
    /\ srt_start = 0
    /\ srt_end = 0
    /\ text = <<>>
    /\ speaker = None
    /\ current_speaker = None
    /\ current_text = <<>>
    /\ output_lines = <<>>
    /\ resolved = <<>>
    /\ out_written = FALSE
    /\ out_file = <<>>
    /\ consumed = <<>>

mergeRest == <<err, joined_segments, block, srt_exhausted, n_read, srt_start,
               srt_end, text, speaker, current_speaker, current_text,
               output_lines, resolved, out_written, out_file, consumed>>

InitDiar ==
    /\ pc = "start"
    /\ MergeIdle
    /\ diar_lines \in SeqsUpTo(DiarLines, MaxDiar)
    /\ title = <<>>
    /\ sanitized = <<>>
    /\ DetectIdle
    /\ MonitorIdle

\* line 158 on the file whose lines are diar_lines
ParseDiarFile ==
    /\ pc = "start"
    /\ segments' = parse_diar(diar_lines)
    /\ pc' = "parsed"
    /\ UNCHANGED <<mergeRest, aux>>

NextDiar ==
    \/ ParseDiarFile
    \/ Join

SpecDiar == InitDiar /\ [][NextDiar]_vars

\* ------------------------------------- convert_books.py: sanitize_filename
\* the character class of line 29
InvalidChars == {"<", ">", ":", "\"", "/", "\\", "|", "?", "*"}

\* the characters titles are made of
TitleChars == {"a", "_", " ", ":", "*"}

\* line 29: re.sub(r'[<>:"/\\|?*]', '_', title)
ReplaceInvalid(s) ==
    [i \in 1..Len(s) |-> IF s[i] \in InvalidChars THEN "_" ELSE s[i]]

\* line 31: re.sub(r'_+', '_', sanitized)
RECURSIVE CollapseUnderscores(_)
CollapseUnderscores(s) ==
    IF Len(s) < 2 THEN s
    ELSE IF s[1] = "_" /\ s[2] = "_" THEN CollapseUnderscores(Tail(s))
    ELSE <<s[1]>> \o CollapseUnderscores(Tail(s))

\* str.strip('_')
RECURSIVE StripUnderscores(_)
StripUnderscores(s) ==
    IF s = <<>> THEN s
    ELSE IF Head(s) = "_" THEN StripUnderscores(Tail(s))
    ELSE IF s[Len(s)] = "_" THEN StripUnderscores(SubSeq(s, 1, Len(s) - 1))
    ELSE s

\* lines 29-34
sanitize_filename(t) ==
    strip(StripUnderscores(CollapseUnderscores(ReplaceInvalid(t))))

InitSanitize ==
    /\ pc = "sanitize"
    /\ MergeIdle
    /\ diar_lines = <<>>
    /\ title \in SeqsUpTo(TitleChars, MaxTitleLen)
    /\ sanitized = <<>>
    /\ DetectIdle
    /\ MonitorIdle

Sanitize ==
    /\ pc = "sanitize"
    /\ sanitized' = sanitize_filename(title)
    /\ pc' = "sanitized"
    /\ UNCHANGED <<segments, mergeRest, diar_lines, title, current, previous,
                   new_downloads, monitor>>

NextSanitize == Sanitize

SpecSanitize == InitSanitize /\ [][NextSanitize]_vars

\* ------------------------------ artifact_downloads.py: detect_new_downloads
Artifacts == {"a.zip", "b.zip"}

\* A Dict[str, int] is the sequence of its items in insertion order, every
\* key at most once.
Dicts ==
    {d \in SeqsUpTo([name : Artifacts, count : 0..MaxCount],
                    Cardinality(Artifacts)) :
        \A i, j \in 1..Len(d) : i # j => d[i].name # d[j].name}

\* dict.get(key, default)
RECURSIVE dict_get(_, _, _)
dict_get(d, key, default) ==
    IF d = <<>> THEN default
    ELSE IF Head(d).name = key THEN Head(d).count
    ELSE dict_get(Tail(d), key, default)

IsNew_OrEqual(count, prev_count) == count >= prev_count

\* line 151
IsNew(count, prev_count) == count > prev_count

\* lines 149-153
RECURSIVE DetectScan(_, _, _, _)
DetectScan(cur, prev, i, found) ==
    IF i > Len(cur) THEN found
    ELSE LET prev_count == dict_get(prev, cur[i].name, 0)
         IN IF IsNew(cur[i].count, prev_count)
            THEN DetectScan(cur, prev, i + 1,
                    Append(found, [artifact |-> cur[i].name,
                                   additional |-> cur[i].count - prev_count]))
            ELSE DetectScan(cur, prev, i + 1, found)

\* lines 145-155; the repo argument is not used
detect_new_downloads(cur, prev) == DetectScan(cur, prev, 1, <<>>)

InitDetect ==
    /\ pc = "detect"
    /\ MergeIdle
    /\ diar_lines = <<>>
    /\ title = <<>>
    /\ sanitized = <<>>
    /\ current \in Dicts
    /\ previous \in Dicts
    /\ new_downloads = <<>>
    /\ MonitorIdle

Detect ==
    /\ pc = "detect"
    /\ new_downloads' = detect_new_downloads(current, previous)
    /\ pc' = "detected"
    /\ UNCHANGED <<segments, mergeRest, diar_lines, title, sanitized, current,
                   previous, monitor>>

NextDetect == Detect

SpecDetect == InitDetect /\ [][NextDetect]_vars

\* ------------------------------- artifact_downloads.py: the monitoring loop
\* The monitored repository has one release; its assets are the artifacts
\* in this order, server[i] being the download count of the i-th.
ArtifactSeq == <<"a.zip", "b.zip">>

ServerCounts == [1..Len(ArtifactSeq) -> 0..MaxCount]

\* fetch_repo_releases: the decoded releases, or None after any error
Releases(counts) ==
    << [assets |-> [i \in 1..Len(ArtifactSeq) |->
                       [name |-> ArtifactSeq[i], download_count |-> counts[i]]]] >>

\* downloads[artifact_name] = download_count
dict_set(d, key, value) ==
    IF \E i \in 1..Len(d) : d[i].name = key
    THEN [i \in 1..Len(d) |->
             IF d[i].name = key THEN [name |-> key, count |-> value] ELSE d[i]]
    ELSE Append(d, [name |-> key, count |-> value])

RECURSIVE AssetScan(_, _, _)
AssetScan(assets, i, downloads) ==
    IF i > Len(assets) THEN downloads
    ELSE AssetScan(assets, i + 1,
            IF assets[i].name # ""
            THEN dict_set(downloads, assets[i].name, assets[i].download_count)
            ELSE downloads)

RECURSIVE ReleaseScan(_, _, _)
ReleaseScan(releases, i, downloads) ==
    IF i > Len(releases) THEN downloads
    ELSE ReleaseScan(releases, i + 1,
                     AssetScan(releases[i].assets, 1, downloads))

\* lines 127-142: releases is None (or empty) after a failed fetch
get_artifact_downloads(fetched, releases) ==
    IF ~fetched \/ releases = <<>> THEN <<>>
    ELSE ReleaseScan(releases, 1, <<>>)

InitMonitor ==
    /\ pc = "monitor"
    /\ MergeIdle
    /\ diar_lines = <<>>
    /\ title = <<>>
    /\ sanitized = <<>>
    /\ DetectIdle
    /\ server \in ServerCounts
    /\ previous_downloads = <<>>
    /\ state_file = <<>>
    /\ reported = <<>>
    /\ polled_ok = FALSE
    /\ last_ok = NoFetch
    /\ baseline = NoFetch

monitorFrame == <<segments, mergeRest, diar_lines, title, sanitized, current,
                  previous, new_downloads>>

\* main, lines 282 and 290: fetch_current_state gives the loop its
\* initial_state; fetched tells whether the request succeeded
FetchCurrentState(fetched) ==
    /\ pc = "monitor"
    /\ previous_downloads' = get_artifact_downloads(fetched, Releases(server))
    /\ polled_ok' = fetched
    /\ baseline' = last_ok
    /\ last_ok' = IF fetched THEN [ok |-> TRUE, counts |-> server] ELSE last_ok
    /\ pc' = "polling"
    /\ UNCHANGED <<server, state_file, reported, monitorFrame>>

\* somebody downloads the i-th artifact
Download(i) ==
    /\ pc = "polling"
    /\ server[i] < MaxCount
    /\ server' = [server EXCEPT ![i] = @ + 1]
    /\ UNCHANGED <<pc, previous_downloads, state_file, reported, polled_ok,
                   last_ok, baseline, monitorFrame>>

\* one cycle of run_monitoring_loop, lines 241-259
Poll(fetched) ==
    /\ pc = "polling"
    /\ LET repo_downloads ==
               get_artifact_downloads(fetched, Releases(server))
       IN /\ reported' = detect_new_downloads(repo_downloads,
                                              previous_downloads)
          /\ previous_downloads' = repo_downloads
          /\ state_file' = repo_downloads
    /\ polled_ok' = fetched
    /\ baseline' = last_ok
    /\ last_ok' = IF fetched THEN [ok |-> TRUE, counts |-> server] ELSE last_ok
    /\ UNCHANGED <<pc, server, monitorFrame>>

NextMonitor ==
    \/ \E fetched \in BOOLEAN : FetchCurrentState(fetched)
    \/ \E i \in 1..Len(ArtifactSeq) : Download(i)
    \/ \E fetched \in BOOLEAN : Poll(fetched)

SpecMonitor == InitMonitor /\ [][NextMonitor]_vars

\* ============================================================== properties
\* overlap of the caption [s, e) with a run, clamped at zero
Overlap(s, e, run) == Max(0, Min(e, run.end) - Max(s, run.start))

RunIdx == 1..Len(joined_segments)
CurOverlap(i) == Overlap(srt_start, srt_end, joined_segments[i])
Resolving == pc = "resolved"
NoOverlapAtAll == \A i \in RunIdx : CurOverlap(i) = 0
JoinDone == pc \in {"loop", "resolved", "done", "error"}

\* C1: when some run overlaps the caption, the resolved speaker is that of
\* the run with the largest overlap, the earliest such run on a tie.
C1_LargestOverlapEarliest ==
    (Resolving /\ \E i \in RunIdx : CurOverlap(i) > 0) =>
        \E i \in RunIdx :
            /\ speaker = joined_segments[i].speaker
            /\ \A j \in RunIdx : CurOverlap(j) <= CurOverlap(i)
            /\ \A j \in RunIdx : j < i => CurOverlap(j) < CurOverlap(i)

\* two runs tie on the largest, positive overlap and the earlier one won
C1_Witness ==
    /\ Resolving
    /\ \E i, j \in RunIdx :
          /\ i < j
          /\ CurOverlap(i) > 0
          /\ CurOverlap(i) = CurOverlap(j)
          /\ joined_segments[i].speaker # joined_segments[j].speaker
          /\ speaker = joined_segments[i].speaker

\* C2: a caption without overlap that starts at or after the end of the
\* last run is given the last run's speaker.
C2_TrailingAfterLastRun ==
    (/\ Resolving
     /\ joined_segments # <<>>
     /\ NoOverlapAtAll
     /\ srt_start >= joined_segments[Len(joined_segments)].end)
    => speaker = joined_segments[Len(joined_segments)].speaker

\* C3: no two adjacent coalesced runs have the same speaker.
C3_Alternation ==
    (JoinDone /\ segments # <<>>) =>
        \A i \in 1..(Len(joined_segments) - 1) :
            joined_segments[i].speaker # joined_segments[i + 1].speaker

C3_Witness == JoinDone /\ Len(joined_segments) >= 2

\* first indices of the maximal blocks of consecutive same-speaker segments
BlockStarts(segs) ==
    {i \in 1..Len(segs) : i = 1 \/ segs[i].speaker # segs[i - 1].speaker}

\* last index of the block that starts at b
BlockLast(segs, b) ==
    LET later == {x \in BlockStarts(segs) : x > b}
    IN IF later = {} THEN Len(segs)
       ELSE (CHOOSE x \in later : \A y \in later : x <= y) - 1

SetMax(S) == CHOOSE m \in S : \A x \in S : x <= m

\* C4: the k-th run covers the k-th maximal same-speaker block: it starts
\* where the block's first segment starts and ends at the largest end of
\* the block's segments.
C4_RunBounds ==
    JoinDone =>
        /\ Len(joined_segments) = Cardinality(BlockStarts(segments))
        /\ \A b \in BlockStarts(segments) :
              LET k == Cardinality({x \in BlockStarts(segments) : x <= b})
                  members == b..BlockLast(segments, b)
              IN /\ joined_segments[k].speaker = segments[b].speaker
                 /\ joined_segments[k].start = segments[b].start
                 /\ joined_segments[k].end =
                        SetMax({segments[i].end : i \in members})

\* a block whose last segment does not carry the block's largest end
C4_Witness ==
    /\ JoinDone
    /\ \E b \in BlockStarts(segments) :
          /\ BlockLast(segments, b) > b
          /\ segments[BlockLast(segments, b)].end < segments[b].end

\* transcript positions whose resolved speaker differs from the previous one
Changes == {i \in 2..Len(resolved) : resolved[i] # resolved[i - 1]}

\* C5: the written file has one block per maximal run of captions resolved
\* to the same speaker, in transcript order.
C5_OneBlockPerRun ==
    pc = "done" =>
        /\ out_written
        /\ Len(out_file) =
               IF resolved = <<>> THEN 0 ELSE 1 + Cardinality(Changes)
        /\ \A k \in 1..(Len(out_file) - 1) :
               out_file[k].speaker # out_file[k + 1].speaker
        /\ \A i \in 1..Len(resolved) :
               (i = 1 \/ i \in Changes) =>
                   out_file[1 + Cardinality({c \in Changes : c <= i})].speaker
                       = resolved[i]

\* two captions of one speaker were merged into a single block
C5_Witness ==
    /\ pc = "done"
    /\ Len(resolved) >= 2
    /\ Len(out_file) < Len(resolved)

\* C6: without diarization segments the coalescer returns the empty list
\* and every caption is resolved to UNKNOWN.
C6_EmptyDiarization ==
    (JoinDone /\ segments = <<>>) =>
        /\ joined_segments = <<>>
        /\ \A i \in 1..Len(resolved) : resolved[i] = "UNKNOWN"
        /\ n_read > 0 => speaker = "UNKNOWN"
        /\ pc = "done" => \A k \in 1..Len(out_file) :
                              out_file[k].speaker = "UNKNOWN"

C6_Witness ==
    /\ pc = "done"
    /\ segments = <<>>
    /\ Len(resolved) >= 2
    /\ Len(out_file) = 1

\* C7: a caption without overlap that starts before the end of the last run
\* is labelled UNKNOWN; its resolution ends normally.
C7_NoOverlapNotTrailing ==
    (/\ Resolving
     /\ joined_segments # <<>>
     /\ NoOverlapAtAll
     /\ srt_start < joined_segments[Len(joined_segments)].end)
    => /\ speaker = "UNKNOWN"
       /\ err = "none"

\* a well-formed caption that lies in a gap before the last run
C7_Witness ==
    /\ Resolving
    /\ Len(joined_segments) >= 2
    /\ NoOverlapAtAll
    /\ srt_start < srt_end
    /\ joined_segments[1].end <= srt_start
    /\ srt_end <= joined_segments[Len(joined_segments)].start
    /\ srt_start < joined_segments[Len(joined_segments)].end
    /\ speaker = "UNKNOWN"

\* C8: every interval the parsers hand on has its start before its end.
C8_WellFormedIntervals ==
    /\ \A i \in 1..Len(segments) : segments[i].start < segments[i].end
    /\ Resolving => srt_start < srt_end

\* the timing line of block b does not parse
BadTimingLine(b) ==
    /\ b.nlines >= 2
    /\ \/ Len(b.timing_parts) < 2
       \/ \E i \in 1..Len(b.timing_parts) : ~b.timing_parts[i].match

\* C9: a caption block whose timing line does not parse ends merge with the
\* parse error of parse_srt and nothing is written.
C9_FailFastParseError ==
    (pc = "error" /\ BadTimingLine(block)) =>
        /\ err = "ValueError"
        /\ ~out_written

\* the buffered texts joined by single spaces
RECURSIVE Concat(_)
Concat(texts) ==
    IF texts = <<>> THEN <<>>
    ELSE IF Len(texts) = 1 THEN texts[1]
    ELSE Concat(SubSeq(texts, 1, Len(texts) - 1)) \o <<" ">>
             \o texts[Len(texts)]

\* every whitespace run replaced by one space, character by character
RECURSIVE Collapse(_, _)
Collapse(s, in_run) ==
    IF s = <<>> THEN <<>>
    ELSE IF IsSpace(Head(s))
         THEN (IF in_run THEN <<>> ELSE <<" ">>) \o Collapse(Tail(s), TRUE)
         ELSE <<Head(s)>> \o Collapse(Tail(s), FALSE)

Trim(s) ==
    LET a == IF s # <<>> /\ Head(s) = " " THEN Tail(s) ELSE s
    IN IF a # <<>> /\ a[Len(a)] = " " THEN SubSeq(a, 1, Len(a) - 1) ELSE a

Normalized(texts) == Trim(Collapse(Concat(texts), FALSE))

WellSpaced(t) ==
    /\ \A i \in 1..Len(t) : IsSpace(t[i]) => t[i] = " "
    /\ \A i \in 1..(Len(t) - 1) : ~(t[i] = " " /\ t[i + 1] = " ")
    /\ t # <<>> => (~IsSpace(t[1]) /\ ~IsSpace(t[Len(t)]))

C10_Emit ==
    /\ Len(output_lines') > Len(output_lines) =>
          LET t == output_lines'[Len(output_lines')].text
          IN /\ Len(output_lines') = Len(output_lines) + 1
             /\ t = Normalized(current_text)
             /\ WellSpaced(t)
    /\ out_written' => out_file' = output_lines'

\* C10: the text of every emitted block is the buffered texts joined by
\* single spaces with every whitespace run collapsed to one space and both
\* ends trimmed; it has no double space and no whitespace at either end.
C10_WhitespaceNormalized == [][C10_Emit]_vars

\* a block made of two captions, each with whitespace runs, was written
C10_Witness ==
    /\ pc = "done"
    /\ \E k \in 1..Len(out_file) :
          out_file[k].text =
              <<"a", " ", "b", " ", "c", " ", "a", " ", "b", " ", "c">>

\* the caption lies wholly inside run i
Contains(i) ==
    /\ joined_segments[i].start <= srt_start
    /\ srt_end <= joined_segments[i].end

\* C11: a caption wholly contained in exactly one run is given that run's
\* speaker.
C11_Containment ==
    Resolving =>
        \A i \in RunIdx :
            (Contains(i) /\ \A j \in RunIdx : Contains(j) => j = i)
                => speaker = joined_segments[i].speaker

\* indices of the lines of the file that DIAR_RE matches, and the k-th one
MatchedIdx == {i \in 1..Len(diar_lines) : diar_lines[i].m}
AsSegment(i) ==
    [start   |-> diar_lines[i].start * MsPerSecond,
     end     |-> diar_lines[i].end * MsPerSecond,
     speaker |-> diar_lines[i].spk]

DiarParsed == pc \in {"parsed", "loop"} /\ diar_lines # <<>>

\* C12: parse_diar returns the matched lines ordered by start, lines of
\* equal start in file order.
C12_StableSortByStart ==
    DiarParsed =>
        /\ Len(segments) = Cardinality(MatchedIdx)
        /\ \A k \in 1..(Len(segments) - 1) :
               segments[k].start <= segments[k + 1].start
        /\ \E p \in [1..Len(segments) -> MatchedIdx] :
               /\ \A k, l \in 1..Len(segments) : k # l => p[k] # p[l]
               /\ \A k \in 1..Len(segments) : segments[k] = AsSegment(p[k])
               /\ \A k, l \in 1..Len(segments) :
                      (k < l /\ segments[k].start = segments[l].start)
                          => p[k] < p[l]

\* two different lines of equal start were parsed and kept their file order
C12_Witness ==
    /\ DiarParsed
    /\ Len(segments) = 2
    /\ Len(diar_lines) = 2
    /\ segments[1].start = segments[2].start
    /\ segments[1] # segments[2]
    /\ segments[1] = AsSegment(1)

\* C13: the sanitized filename has none of the characters < > : " / \ | ? *,
\* no two consecutive underscores, and neither an underscore nor whitespace
\* at either end.
C13_SanitizedFilename ==
    pc = "sanitized" =>
        /\ \A i \in 1..Len(sanitized) :
               sanitized[i] \notin {"<", ">", ":", "\"", "/", "\\", "|", "?", "*"}
        /\ \A i \in 1..(Len(sanitized) - 1) :
               ~(sanitized[i] = "_" /\ sanitized[i + 1] = "_")
        /\ sanitized # <<>> =>
               /\ sanitized[1] \notin {"_", " ", "\t"}
               /\ sanitized[Len(sanitized)] \notin {"_", " ", "\t"}

\* the count a map holds for an artifact, 0 when the artifact is absent
Has(d, a) == \E i \in 1..Len(d) : d[i].name = a
CountOf(d, a) ==
    IF Has(d, a) THEN d[CHOOSE i \in 1..Len(d) : d[i].name = a].count ELSE 0

\* C14: an artifact is listed exactly when its current count exceeds its
\* previous count (0 when absent), once, with the difference as its number.
C14_DetectNewDownloads ==
    pc = "detected" =>
        /\ \A a \in Artifacts :
               (Has(current, a) /\ CountOf(current, a) > CountOf(previous, a))
                   <=> (\E i \in 1..Len(new_downloads) :
                           new_downloads[i].artifact = a)
        /\ \A i, j \in 1..Len(new_downloads) :
               i # j => new_downloads[i].artifact # new_downloads[j].artifact
        /\ \A i \in 1..Len(new_downloads) :
               new_downloads[i].additional =
                   CountOf(current, new_downloads[i].artifact)
                       - CountOf(previous, new_downloads[i].artifact)

\* one artifact is new to the previous map and listed, the other has an
\* unchanged, positive count and is not listed
C14_Witness ==
    /\ pc = "detected"
    /\ Len(new_downloads) = 1
    /\ ~Has(previous, new_downloads[1].artifact)
    /\ \E a \in Artifacts :
          /\ Has(current, a)
          /\ Has(previous, a)
          /\ CountOf(current, a) > 0
          /\ CountOf(current, a) = CountOf(previous, a)

\* position of an artifact among the assets
ArtifactPos(a) == CHOOSE i \in 1..Len(ArtifactSeq) : ArtifactSeq[i] = a

\* C15: every report of a poll carries the increase of the artifact's count
\* from the last poll that fetched the repository to this one; a failed
\* poll reports nothing.
C15_NoReReport ==
    pc = "polling" =>
        /\ ~polled_ok => reported = <<>>
        /\ (polled_ok /\ baseline.ok) =>
               \A k \in 1..Len(reported) :
                   reported[k].additional =
                       last_ok.counts[ArtifactPos(reported[k].artifact)]
                           - baseline.counts[ArtifactPos(reported[k].artifact)]

\* the captions that open a block: the first one and every one whose
\* resolved speaker differs from the previous caption's
OpensBlock(i) == i = 1 \/ resolved[i] # resolved[i - 1]

\* the block a caption belongs to, counted from the first block
BlockOf(i) == Cardinality({j \in 1..i : OpensBlock(j)})

\* the captions of the k-th block, in transcript order
FirstOf(k) == CHOOSE i \in 1..Len(resolved) : OpensBlock(i) /\ BlockOf(i) = k
LastOf(k) ==
    CHOOSE i \in 1..Len(resolved) :
        /\ BlockOf(i) = k
        /\ (i = Len(resolved) \/ OpensBlock(i + 1))

\* C16: once the transcript is consumed and the output written, the output
\* has one block per maximal run of captions with the same resolved speaker,
\* in transcript order; the k-th block carries that speaker and the texts
\* of exactly the captions of the k-th run, in transcript order
\* (whitespace-normalised), so no text is dropped, duplicated or moved and
\* the last buffer is flushed.
C16_TextConservation ==
    pc = "done" =>
        /\ Len(consumed) = n_read
        /\ Len(resolved) = n_read
        /\ Len(out_file) = (IF n_read = 0 THEN 0 ELSE BlockOf(n_read))
        /\ \A k \in 1..Len(out_file) :
              /\ out_file[k].speaker = resolved[FirstOf(k)]
              /\ out_file[k].text =
                     Normalized(SubSeq(consumed, FirstOf(k), LastOf(k)))

\* two captions with different texts went to one block, in their order
C16_Witness ==
    /\ pc = "done"
    /\ Len(consumed) = 2
    /\ consumed[1] # <<>>
    /\ consumed[2] # <<>>
    /\ consumed[1] # consumed[2]
    /\ Len(out_file) = 1
    /\ out_file[1].text = consumed[1] \o <<" ">> \o consumed[2]

====
